---- MODULE Spec2Model ----
(***************************************************************************)
(* A model of the EXPIMAP wrapper class of                                 *)
(* scarches/models/expimap/expimap_model.py: construction, train,         *)
(* terms_genes, latent_directions, latent_enrich and load_query_data.     *)
(*                                                                         *)
(* Numbers that the code computes in floating point are modelled as exact  *)
(* rationals <<n, d>> in lowest terms (d > 0).  Strings whose characters   *)
(* the code iterates or searches (category names, parameter names) are     *)
(* modelled as sequences of one-character strings; keys of the             *)
(* auxiliary-output store (adata.uns) are TLA+ strings.                    *)
(***************************************************************************)
EXTENDS Integers, Sequences, FiniteSets, TLC

VARIABLES
    ctor,         \* the arguments the wrapper was constructed with
    mask_,        \* self.mask_: list of rows, each a list of 0/1 per gene
    latent_dim_,  \* self.latent_dim_
    n_ext_,       \* self.n_ext_
    n_ext_m_,     \* self.n_ext_m_
    is_trained_,  \* self.is_trained_
    trainer,      \* self.trainer: 0 is None, k > 0 the k-th VIATrainer object
    n_trainers,   \* number of VIATrainer objects constructed so far
    weight,       \* self.model.decoder.L0.expr_L.weight.data, [gene][term]
    uns,          \* the uns store of each dataset: "self" is self.adata
    obs,          \* the column of adata.obs that a string `groups` names
    enc,          \* the encoder's posterior per cell: [mean, var] per term
    ret           \* the last call: operation, arguments, outcome, value

vars == <<ctor, mask_, latent_dim_, n_ext_, n_ext_m_, is_trained_, trainer,
          n_trainers, weight, uns, obs, enc, ret>>

wrapper == <<mask_, latent_dim_, n_ext_, n_ext_m_, is_trained_, trainer>>

---------------------------------------------------------------------------
(* Bounds of the model *)

\* n_ext and n_ext_m range over 0..MaxExt
MaxExt == 1
\* at most MaxTrain VIATrainer objects are constructed
MaxTrain == 2
\* n_sample of latent_enrich
NSample == 2

---------------------------------------------------------------------------
(* Generic helpers *)

Range(s) == {s[i] : i \in DOMAIN s}

\* an optional value: None, or Some(x)
None == <<>>
Some(x) == <<x>>

RECURSIVE SumSeq(_)
SumSeq(s) == IF s = <<>> THEN 0 ELSE Head(s) + SumSeq(Tail(s))

Abs(n) == IF n < 0 THEN -n ELSE n

RECURSIVE Gcd(_, _)
Gcd(a, b) == IF b = 0 THEN a ELSE Gcd(b, a % b)

\* the rational n/d in lowest terms, d > 0
Rat(n, d) ==
    LET s == IF d < 0 THEN -1 ELSE 1
        g == Gcd(Abs(n), Abs(d))
    IN  <<(s * n) \div g, (s * d) \div g>>

R(n) == <<n, 1>>
RSub(a, b) == Rat(a[1] * b[2] - b[1] * a[2], a[2] * b[2])
RAdd(a, b) == Rat(a[1] * b[2] + b[1] * a[2], a[2] * b[2])
RMul(a, b) == Rat(a[1] * b[1], a[2] * b[2])
RDiv(a, b) == Rat(a[1] * b[2], a[2] * b[1])
RAbs(a) == <<Abs(a[1]), a[2]>>
RLt(a, b) == a[1] * b[2] < b[1] * a[2]
RGt(a, b) == RLt(b, a)
Half == <<1, 2>>

---------------------------------------------------------------------------
(* The dataset *)

\* adata.var_names
var_names == <<"g1", "g2", "g3">>
n_vars == Len(var_names)

Datasets == {"self", "other"}

\* the dataset a call works on (lines 191-192, 235-236)
Resolve(adata) == IF adata = "None" THEN "self" ELSE adata

\* store with key k set to value v
Put(store, k, v) ==
    [x \in DOMAIN store \cup {k} |-> IF x = k THEN v ELSE store[x]]

EmptyStore == [x \in {} |-> 0]

---------------------------------------------------------------------------
(* Construction: EXPIMAP.__init__ *)

Transpose(m) ==
    IF m = <<>> THEN <<>>
    ELSE [j \in 1..Len(m[1]) |-> [i \in 1..Len(m) |-> m[i][j]]]

\* lines 99-102: the mask argument, or adata.varm[mask_key].T
ResolveMask(mask, varm) == IF mask = None THEN Transpose(varm) ELSE mask[1]

LatentDimSum(mask, n_ext, n_ext_m) == Len(mask) + n_ext + n_ext_m

\* line 104
LatentDim(mask, n_ext, n_ext_m) == Len(mask)

\* binary matrices with 3 gene columns used as masks
Row(a, b, c) == <<a, b, c>>
BinRows == {Row(a, b, c) : a \in {0, 1}, b \in {0, 1}, c \in {0, 1}}
AllMasks == {<<r>> : r \in BinRows} \cup {<<r, s>> : r \in BinRows, s \in BinRows}

\* weight columns (one entry per gene) the decoder may hold
ZeroCol == Row(0, 0, 0)
TrainCols == {ZeroCol, Row(2, -1, -1)}
FewCols == {ZeroCol, Row(1, 1, -2), Row(1, -2, 0), Row(-2, 1, 1)}
WVals == {-2, 0, 1}
AllCols == {Row(a, b, c) : a \in WVals, b \in WVals, c \in WVals}

\* the [gene][term] matrices whose t-th column comes from colSets[t]
Weights(colSets, n_terms) ==
    {Transpose(c) : c \in {f \in [1..n_terms -> UNION Range(colSets)] :
                              \A t \in 1..n_terms : f[t] \in colSets[t]}}

\* the term names a dataset may carry under adata.uns['terms']
DefaultTerms == <<"A", "B", "C">>

Construct(mask, varm, n_ext, n_ext_m) ==
    LET m == ResolveMask(mask, varm) IN
    /\ mask_ = m
    /\ latent_dim_ = LatentDim(m, n_ext, n_ext_m)
    /\ n_ext_ = n_ext
    /\ n_ext_m_ = n_ext_m
    /\ is_trained_ = FALSE
    /\ trainer = 0
    /\ ctor = [mask |-> mask, varm |-> varm, n_ext |-> n_ext, n_ext_m |-> n_ext_m]
    /\ ret = [op |-> "__init__", outcome |-> "ok", line |-> 143]

\* the states after a successful construction, the inputs drawn from the
\* given sets: the masks, whether the mask comes from adata.varm, the
\* extension sizes, the initial weight columns, whether the dataset carries
\* term names, the obs column and the encoder
InitWith(masks, vias, exts, colSets, termsOpts, obsSet, encSets) ==
    /\ \E m \in masks, byVarm \in vias, n_ext \in exts, n_ext_m \in exts :
          Construct(IF byVarm THEN None ELSE Some(m), Transpose(m), n_ext, n_ext_m)
    /\ weight \in Weights(colSets, Len(mask_))
    /\ n_trainers = 0
    /\ \E hasTerms \in termsOpts :
          uns = [d \in Datasets |->
                   IF d = "self" /\ hasTerms
                   THEN Put(EmptyStore, "terms", SubSeq(DefaultTerms, 1, Len(mask_)))
                   ELSE EmptyStore]
    /\ obs \in obsSet
    /\ enc \in encSets[Len(mask_) + n_ext_ + n_ext_m_]

---------------------------------------------------------------------------
(* EXPIMAP.train *)

\* lines 166-175.  The trainer's constructor and its train method are
\* external; either may raise, and training changes the network's weights.
Train(colSets) ==
    /\ n_trainers < MaxTrain
    /\ \/ \* VIATrainer(...) raises: nothing was assigned
          /\ ret' = [op |-> "train", outcome |-> "error", line |-> 166]
          /\ UNCHANGED <<trainer, n_trainers, weight, is_trained_>>
       \/ \* self.trainer.train(...) raises after self.trainer was assigned
          /\ trainer' = n_trainers + 1
          /\ n_trainers' = n_trainers + 1
          /\ weight' \in Weights(colSets, Len(mask_))
          /\ ret' = [op |-> "train", outcome |-> "error", line |-> 174]
          /\ UNCHANGED is_trained_
       \/ \* training completes
          /\ trainer' = n_trainers + 1
          /\ n_trainers' = n_trainers + 1
          /\ weight' \in Weights(colSets, Len(mask_))
          /\ is_trained_' = TRUE
          /\ ret' = [op |-> "train", outcome |-> "ok", line |-> 175]
    /\ UNCHANGED <<ctor, mask_, latent_dim_, n_ext_, n_ext_m_, uns, obs, enc>>

---------------------------------------------------------------------------
(* EXPIMAP.terms_genes *)

\* line 186: np.array(self.mask_, dtype=bool)
AsBool(m) == [i \in DOMAIN m |-> [j \in DOMAIN m[i] |-> m[i][j] # 0]]

RECURSIVE Select(_, _, _)
\* names[row] for a boolean row: the names at the True positions, in order
Select(names, row, j) ==
    IF j > Len(names) THEN <<>>
    ELSE (IF row[j] THEN <<names[j]>> ELSE <<>>) \o Select(names, row, j + 1)

\* the index whose entry a dict comprehension keeps for key t: the last one
LastIndex(terms, t) ==
    CHOOSE i \in DOMAIN terms :
        terms[i] = t /\ \A k \in DOMAIN terms : terms[k] = t => k <= i

\* line 184
LengthCheck(terms, mask) == Len(terms) # Len(mask)

GenesOfFirstRow(I, i) == Select(var_names, I[1], 1)

\* line 187: self.adata.var_names[I[i]].tolist()
GenesOf(I, i) == Select(var_names, I[i], 1)

\* lines 180-187.  terms is a store key (a str) or a list of term names
TermsGenesResult(terms, isStr, store, mask) ==
    LET I == AsBool(mask) IN
    IF isStr /\ terms \notin DOMAIN store
    THEN [outcome |-> "KeyError", line |-> 182]
    ELSE IF ~isStr /\ LengthCheck(terms, mask)
    THEN [outcome |-> "ValueError", line |-> 185]
    ELSE LET ts == IF isStr THEN store[terms] ELSE terms IN
         IF Len(ts) > Len(mask)
         THEN [outcome |-> "IndexError", line |-> 187]
         ELSE [outcome |-> "ok", line |-> 187,
               value |-> [t \in Range(ts) |-> GenesOf(I, LastIndex(ts, t))]]

TermNames == {"A", "B", "C"}
TermLists == UNION {[1..n -> TermNames] : n \in 0..3}
FewTermLists == {<<"A">>, <<"A", "B">>, <<"B", "B">>}

TermsGenes(lists, keys) ==
    /\ \/ \E terms \in lists :
             ret' = [op |-> "terms_genes", terms |-> terms, isStr |-> FALSE]
                    @@ TermsGenesResult(terms, FALSE, uns["self"], mask_)
       \/ \E terms \in keys :
             ret' = [op |-> "terms_genes", terms |-> terms, isStr |-> TRUE]
                    @@ TermsGenesResult(terms, TRUE, uns["self"], mask_)
    /\ UNCHANGED <<ctor, wrapper, n_trainers, weight, uns, obs, enc>>

---------------------------------------------------------------------------
(* EXPIMAP.latent_directions *)

GeneIdx(W) == 1..Len(W)
TermIdx(W) == 1..Len(W[1])

\* terms_weights.sum(0)
ColSum(W, t) == SumSeq([g \in GeneIdx(W) |-> W[g][t]])
\* torch.count_nonzero(terms_weights, dim=0)
NumNz(W, t) == Cardinality({g \in GeneIdx(W) : W[g][t] # 0})
\* torch.count_nonzero(terms_weights > 0, dim=0)
Upreg(W, t) == Cardinality({g \in GeneIdx(W) : W[g][t] > 0})

\* lines 197-199
SumSigns(W) ==
    LET s0 == [t \in TermIdx(W) |-> R(ColSum(W, t))]
        s1 == [t \in TermIdx(W) |-> IF RGt(s0[t], R(0)) THEN R(1) ELSE s0[t]]
        s2 == [t \in TermIdx(W) |-> IF RLt(s1[t], R(0)) THEN R(-1) ELSE s1[t]]
    IN  s2

\* line 204: upreg_genes / (num_nz + (num_nz == 0))
CountsRatio(W) ==
    [t \in TermIdx(W) |->
        RDiv(R(Upreg(W, t)), R(NumNz(W, t) + (IF NumNz(W, t) = 0 THEN 1 ELSE 0)))]

\* lines 207-209
CountsConfidence(W) ==
    LET c0 == CountsRatio(W)
        c1 == [t \in TermIdx(W) |-> RDiv(RAbs(RSub(c0[t], Half)), Half)]
        c2 == [t \in TermIdx(W) |-> IF NumNz(W, t) = 0 THEN R(0) ELSE c1[t]]
    IN  c2

CountsSignsUnforced(W) ==
    LET s0 == CountsRatio(W)
        s1 == [t \in TermIdx(W) |-> IF RGt(s0[t], Half) THEN R(1) ELSE s0[t]]
        s2 == [t \in TermIdx(W) |-> IF RLt(s1[t], Half) THEN R(-1) ELSE s1[t]]
        s3 == [t \in TermIdx(W) |-> IF s2[t] = Half THEN R(0) ELSE s2[t]]
    IN  s3

\* lines 204-205 and 211-215: the assignments in the order the code makes them
CountsSigns(W) ==
    LET s0 == CountsRatio(W)
        s1 == [t \in TermIdx(W) |-> IF RGt(s0[t], Half) THEN R(1) ELSE s0[t]]
        s2 == [t \in TermIdx(W) |-> IF RLt(s1[t], Half) THEN R(-1) ELSE s1[t]]
        s3 == [t \in TermIdx(W) |-> IF s2[t] = Half THEN R(0) ELSE s2[t]]
        s4 == [t \in TermIdx(W) |-> IF NumNz(W, t) = 0 THEN R(0) ELSE s3[t]]
    IN  s4

\* line 221: the suffix of the key the confidence array is stored under
ConfidenceSuffix == "_confindence"

\* lines 219-221: the store after the writes of a call that did not raise
DirectionsWrites(store, W, method, get_confidence, key_added) ==
    LET signs == IF method = "sum" THEN SumSigns(W) ELSE CountsSigns(W)
        s1 == Put(store, key_added, signs)
    IN  IF get_confidence /\ method = "counts"
        THEN Put(s1, key_added \o ConfidenceSuffix, CountsConfidence(W))
        ELSE s1

Methods == {"sum", "counts", "mean"}

\* lines 189-221
LatentDirections(methods, adatas, keys) ==
    /\ \E method \in methods, get_confidence \in BOOLEAN,
          adata \in adatas, key_added \in keys :
          LET d == Resolve(adata)
              call == [op |-> "latent_directions", method |-> method,
                       get_confidence |-> get_confidence, adata |-> adata,
                       key_added |-> key_added]
          IN  IF method \in {"sum", "counts"}
              THEN /\ uns' = [uns EXCEPT ![d] =
                                 DirectionsWrites(@, weight, method,
                                                  get_confidence, key_added)]
                   /\ ret' = call @@ [outcome |-> "ok", line |-> 221]
              ELSE /\ ret' = call @@ [outcome |-> "ValueError", line |-> 217]
                   /\ UNCHANGED uns
    /\ UNCHANGED <<ctor, wrapper, n_trainers, weight, obs, enc>>

---------------------------------------------------------------------------
(* EXPIMAP.latent_enrich *)

\* adata.obs_names; a cell is named by its position
obs_names == <<"c1", "c2", "c3">>
Cells == DOMAIN obs_names

\* category names are sequences of characters
Rest == <<"r", "e", "s", "t">>

\* Python's `p in s` for two strings
IsSubstr(p, s) ==
    \E i \in 0..(Len(s) - Len(p)) : SubSeq(s, i + 1, i + Len(p)) = p

RECURSIVE UniqueSeq(_)
\* pandas unique(): the distinct values in order of first appearance
UniqueSeq(s) ==
    IF s = <<>> THEN <<>>
    ELSE LET u == UniqueSeq(SubSeq(s, 1, Len(s) - 1))
             x == s[Len(s)]
         IN  IF x \in Range(u) THEN u ELSE Append(u, x)

RECURSIVE AllCells(_)
\* lines 243-246: all_cells += cells, over the items of the dict
AllCells(items) ==
    IF items = <<>> THEN <<>>
    ELSE items[1].cells \o AllCells(Tail(items))

\* lines 249-250: the group written last to a cell's rows
LastGroupOf(items, cell) ==
    LET i == CHOOSE k \in DOMAIN items :
                 /\ cell \in Range(items[k].cells)
                 /\ \A m \in DOMAIN items :
                       cell \in Range(items[m].cells) => m <= k
    IN  items[i].name

\* lines 238-250: the rows of the dataset the loop works on (the dataset's
\* cells, or the rows of the view adata[all_cells]), their category column
\* and the categories
Frame(groups, column) ==
    IF groups.kind = "str"
    THEN [rows |-> [i \in Cells |-> i], col |-> column, cats |-> UniqueSeq(column)]
    ELSE LET rows == AllCells(groups.items) IN
         [rows |-> rows,
          col |-> [i \in DOMAIN rows |-> LastGroupOf(groups.items, rows[i])],
          cats |-> [i \in DOMAIN groups.items |-> groups.items[i].name]]

\* comparison != "rest"
NotRest(c) == ~(c.kind = "str" /\ c.v = Rest)

SetOfWhole(c) == IF c.kind = "str" THEN {c.v} ELSE Range(c.v)

\* set(comparison): of a str, its characters
SetOf(c) == IF c.kind = "str" THEN {<<c.v[i]>> : i \in DOMAIN c.v} ELSE Range(c.v)

\* line 254
ComparisonCheck(c, cats) == NotRest(c) /\ SetOf(c) \subseteq Range(cats)

\* lines 259-260
Normalise(c) ==
    IF NotRest(c) /\ c.kind = "str" THEN [kind |-> "list", v |-> <<c.v>>] ELSE c

\* line 263: `cat in comparison`, comparison being "rest" or a list
Skip(cat, c) == IF c.kind = "str" THEN IsSubstr(cat, c.v) ELSE cat \in Range(c.v)

RECURSIVE Filter(_, _, _)
\* the indexes i of col, in order, with keep[col[i]]
Filter(col, keep, i) ==
    IF i > Len(col) THEN <<>>
    ELSE (IF col[i] \in keep THEN <<i>> ELSE <<>>) \o Filter(col, keep, i + 1)

\* line 266
CatRows(frame, cat) == Filter(frame.col, {cat}, 1)

\* lines 267-270
OtherRows(frame, cat, c) ==
    IF ~NotRest(c) THEN Filter(frame.col, Range(frame.col) \ {cat}, 1)
    ELSE Filter(frame.col, Range(c.v), 1)

RECURSIVE RSum(_)
RSum(s) == IF s = <<>> THEN R(0) ELSE RAdd(Head(s), RSum(Tail(s)))

\* 0.5 * erfc(d / sqrt(2 * s)), s > 0, reduced to five steps that keep its
\* order and symmetry: 1/2 at d = 0, below 1/2 for d > 0, above for d < 0,
\* the outer steps where |d| / sqrt(2 * s) >= 1
HalfErfc(d, s) ==
    LET far == d[1] * d[1] >= 2 * s * d[2] * d[2] IN
    IF d[1] = 0 THEN Half
    ELSE IF d[1] > 0 THEN (IF far THEN <<1, 8>> ELSE <<1, 4>>)
    ELSE (IF far THEN <<7, 8>> ELSE <<3, 4>>)

\* ln(a + epsilon) - ln(b + epsilon), kept as the pair <<a, b>>; the value 0
\* (a = b) is BfZero
BfZero == <<R(1), R(1)>>
LogRatio(a, b) == IF a = b THEN BfZero ELSE <<a, b>>

\* z[:, select_terms], select_terms a list of 0-based indexes, if given
Columns(z, select_terms) ==
    IF select_terms = None THEN z
    ELSE [i \in DOMAIN z |->
            [j \in DOMAIN select_terms[1] |-> z[i][select_terms[1][j] + 1]]]

\* z *= directions
Directed(z, directions) ==
    IF directions = None THEN z
    ELSE [i \in DOMAIN z |-> [t \in DOMAIN z[i] |-> RMul(z[i][t], directions[1][t])]]

ColAbsSum(z, j) == RSum([i \in DOMAIN z |-> RAbs(z[i][j])])

ZerosMaskGroupOnly(z0, z1, j) == ColAbsSum(z0, j) = R(0)

\* lines 307 and 327
ZerosMask(z0, z1, j) == ColAbsSum(z0, j) = R(0) \/ ColAbsSum(z1, j) = R(0)

\* lines 305 and 329: the column means of z0 > z1
PH0Sampled(z0, z1, j) ==
    Rat(Cardinality({i \in DOMAIN z0 : RGt(z0[i][j], z1[i][j])}), Len(z0))

\* lines 324-325 and 329
PH0Exact(m0, m1, v0, v1, j) ==
    RDiv(RSum([i \in DOMAIN m0 |->
                 HalfErfc(RSub(m1[i][j], m0[i][j]), v0[i][j] + v1[i][j])]),
         R(Len(m0)))

\* lines 334-336: a term's three values, forced to 0 where the mask is set
Masked(p_h0, p_h1, bf, zero) ==
    IF zero THEN [p_h0 |-> R(0), p_h1 |-> R(0), bf |-> BfZero]
    ELSE [p_h0 |-> p_h0, p_h1 |-> p_h1, bf |-> bf]

\* lines 330-332
Hypotheses(p_h0, zero) ==
    Masked(p_h0, RSub(R(1), p_h0), LogRatio(p_h0, RSub(R(1), p_h0)), zero)

\* lines 305-307 and 324-336 for one term
ScoreOfTerm(z0, z1, v0, v1, exact, j) ==
    Hypotheses(IF exact THEN PH0Exact(z0, z1, v0, v1, j) ELSE PH0Sampled(z0, z1, j),
               ZerosMask(z0, z1, j))

\* line 338: dict(p_h0=p_h0, p_h1=p_h1, bf=bf), from the values by term
Entry(byTerm) ==
    [p_h0 |-> [j \in DOMAIN byTerm |-> byTerm[j].p_h0],
     p_h1 |-> [j \in DOMAIN byTerm |-> byTerm[j].p_h1],
     bf |-> [j \in DOMAIN byTerm |-> byTerm[j].bf]]

\* lines 305-338: the entry of one category, from the two transformed samples
Score(z0, z1, v0, v1, exact) ==
    Entry([j \in DOMAIN z0[1] |-> ScoreOfTerm(z0, z1, v0, v1, exact, j)] \o <<>>)

\* lines 283-294: get_latent on the sampled cells.  The posterior mean and
\* variance of a cell are enc's; a sampled latent value is the mean plus a
\* random deviation.
Means(cells, noise) ==
    [i \in DOMAIN cells |->
        [t \in DOMAIN enc[cells[i]].mean |-> R(enc[cells[i]].mean[t] + noise[i][t])]]
Vars(cells) == [i \in DOMAIN cells |-> enc[cells[i]].var]

\* the size of the network's latent space
Dims == Len(enc[1].mean)

\* np.random.choice(count, n_sample): n_sample positions among count rows
Choices(count) == [1..NSample -> 1..count]
\* the deviations of the sampled latent values from the posterior means, by
\* draw and term: the first draw deviates by e in every term
Deviations(noises) ==
    {[i \in 1..NSample |-> [t \in 1..Dims |-> IF i = 1 THEN e ELSE 0]] : e \in noises}

\* a matrix with its rows and entries evaluated
Matrix(z) == [i \in 1..Len(z) |-> SubSeq(z[i], 1, Len(z[i]))] \o <<>>

Sampled(raw0, raw1, z0, z1, v0, v1, exact) ==
    [score |-> Score(z0, z1, v0, v1, exact),
     raw0 |-> raw0, raw1 |-> raw1, z0 |-> z0, z1 |-> z1]

\* lines 283-323: the two samples as get_latent returns them, and after the
\* multiplication by directions and the selection of terms
Transformed(raw0, raw1, var0, var1, directions, select_terms, exact) ==
    Sampled(raw0, raw1,
            Matrix(Columns(Directed(raw0, directions), select_terms)),
            Matrix(Columns(Directed(raw1, directions), select_terms)),
            Matrix(Columns(var0, select_terms)),
            Matrix(Columns(var1, select_terms)), exact)

\* lines 272-338 for one category with rows r0 and comparison rows r1: every
\* entry that the draws can give, with the samples it was computed from
Draws(rows, r0, r1, directions, select_terms, exact, dev) ==
    { Transformed(
          Matrix(Means([i \in 1..NSample |-> rows[r0[ch0[i]]]], n0)),
          Matrix(Means([i \in 1..NSample |-> rows[r1[ch1[i]]]], n1)),
          Vars([i \in 1..NSample |-> rows[r0[ch0[i]]]]),
          Vars([i \in 1..NSample |-> rows[r1[ch1[i]]]]),
          directions, select_terms, exact)
      : ch0 \in Choices(Len(r0)), ch1 \in Choices(Len(r1)),
        n0 \in dev, n1 \in dev }

\* lines 266-338 for one category
CatEvals(frame, cat, c, directions, select_terms, exact, noises) ==
    Draws(frame.rows, CatRows(frame, cat), OtherRows(frame, cat, c),
          directions, select_terms, exact,
          Deviations(IF exact THEN {0} ELSE noises))

NoFailure == [outcome |-> "ok", line |-> 340, n_choice |-> 0]

\* lines 272-303 (exact: -322) for one category: the statement that raises, if
\* one does, and the number of draws made before it
CatFailure(frame, cat, c, store, use_directions, directions_key, select_terms, exact) ==
    IF Len(CatRows(frame, cat)) = 0
    THEN [outcome |-> "ValueError", line |-> 272, n_choice |-> 0]
    ELSE IF Len(OtherRows(frame, cat, c)) = 0
    THEN [outcome |-> "ValueError", line |-> 273, n_choice |-> 1]
    ELSE IF use_directions /\ directions_key \notin DOMAIN store
    THEN [outcome |-> "KeyError", line |-> 279, n_choice |-> 2]
    ELSE IF use_directions /\ Len(store[directions_key]) \notin {1, Dims}
    THEN [outcome |-> "ValueError", line |-> IF exact THEN 315 ELSE 298,
          n_choice |-> 2]
    ELSE IF /\ select_terms # None
            /\ \E j \in DOMAIN select_terms[1] : select_terms[1][j] >= Dims
    THEN [outcome |-> "IndexError", line |-> IF exact THEN 319 ELSE 302,
          n_choice |-> 2]
    ELSE NoFailure

RECURSIVE FirstFailure(_, _)
\* the failure of the first category of the loop that has one
FirstFailure(failures, k) ==
    IF k > Len(failures) THEN NoFailure
    ELSE IF failures[k].outcome # "ok"
    THEN [failures[k] EXCEPT !.n_choice = @ + 2 * (k - 1)]
    ELSE FirstFailure(failures, k + 1)

RECURSIVE SeqProduct(_)
\* the sequences that take their k-th element from sets[k]
SeqProduct(sets) ==
    IF sets = <<>> THEN {<<>>}
    ELSE {<<h>> \o t : h \in sets[1], t \in SeqProduct(Tail(sets))}

RECURSIVE SelectNot(_, _, _)
\* lines 262-264: the categories the loop does not skip, in order
SelectNot(cats, c, k) ==
    IF k > Len(cats) THEN <<>>
    ELSE (IF Skip(cats[k], c) THEN <<>> ELSE <<cats[k]>>) \o SelectNot(cats, c, k + 1)

IndexOf(s, x) == CHOOSE k \in DOMAIN s : s[k] = x

\* line 340: adata.uns[key_added] = scores.  With a dict `groups`, adata is
\* the view adata[all_cells]; writing to a view's uns turns the view into a
\* copy of its own, and the dataset the view was taken from is not written.
WriteScores(stores, d, groups, key_added, scores) ==
    IF groups.kind = "dict" THEN stores
    ELSE [stores EXCEPT ![d] = Put(@, key_added, scores)]

\* lines 223-340
LatentEnrich(groupsSet, comparisons, adatas, useDirs, selects, exacts, noises) ==
    /\ \E groups \in groupsSet, comparison \in comparisons, adata \in adatas,
          use_directions \in useDirs, select_terms \in selects, exact \in exacts :
          LET d == Resolve(adata)
              key_added == "bf_scores"
              directions_key == "directions"
              call == [op |-> "latent_enrich", groups |-> groups,
                       comparison |-> comparison, adata |-> adata,
                       use_directions |-> use_directions,
                       select_terms |-> select_terms, exact |-> exact,
                       key_added |-> key_added]
              Fail(f) == /\ ret' = call @@ f
                         /\ UNCHANGED uns
          IN  IF groups.kind \notin {"str", "dict"}
              THEN Fail([outcome |-> "ValueError", line |-> 252, n_choice |-> 0])
              ELSE IF /\ groups.kind = "dict"
                      /\ ~(Range(AllCells(groups.items)) \subseteq Cells)
              THEN Fail([outcome |-> "KeyError", line |-> 247, n_choice |-> 0])
              ELSE
              \E frame \in {Frame(groups, obs)} :
              IF ComparisonCheck(comparison, frame.cats)
              THEN Fail([outcome |-> "ValueError", line |-> 255, n_choice |-> 0])
              ELSE
              \E c \in {Normalise(comparison)} :
              \E evalCats \in {SelectNot(frame.cats, c, 1)} :
              \E failure \in {FirstFailure(
                      [k \in DOMAIN evalCats |->
                          CatFailure(frame, evalCats[k], c, uns[d], use_directions,
                                     directions_key, select_terms, exact)], 1)} :
                  IF failure.outcome # "ok"
                  THEN Fail(failure)
                  ELSE
                  \E directions \in {IF use_directions
                                     THEN Some(uns[d][directions_key]) ELSE None} :
                  \E evals \in SeqProduct(
                          [k \in DOMAIN evalCats |->
                              CatEvals(frame, evalCats[k], c, directions,
                                       select_terms, exact, noises)] \o <<>>) :
                  \E scores \in {[cat \in Range(evalCats) |->
                                    evals[IndexOf(evalCats, cat)].score]} :
                        /\ uns' = WriteScores(uns, d, groups, key_added, scores)
                        /\ ret' = call @@
                                 [outcome |-> "ok", line |-> 340,
                                  n_choice |-> 2 * Len(evalCats),
                                  cats |-> Range(frame.cats),
                                  scores |-> scores,
                                  samples |-> [cat \in Range(evalCats) |->
                                      [raw0 |-> evals[IndexOf(evalCats, cat)].raw0,
                                       raw1 |-> evals[IndexOf(evalCats, cat)].raw1,
                                       z0 |-> evals[IndexOf(evalCats, cat)].z0,
                                       z1 |-> evals[IndexOf(evalCats, cat)].z1]]]
    /\ UNCHANGED <<ctor, wrapper, n_trainers, weight, obs, enc>>

---------------------------------------------------------------------------
(* EXPIMAP.load_query_data *)

\* the names named_parameters() gives the parameters of the new model's
\* network
ParamNames ==
    { "encoder.FC.L0.expr_L.weight",
      "encoder.mean_encoder.weight",
      "encoder.log_var_encoder.bias",
      "encoder.expand_mean_encoder.weight",
      "encoder.expand_mean_encoder.bias",
      "encoder.expand_var_encoder.weight",
      "encoder.expand_var_encoder.bias",
      "decoder.L0.expr_L.weight",
      "decoder.L0.cond_L.weight",
      "decoder.L0.ext_L.weight",
      "decoder.L0.ext_L_m.weight" }

\* the requires_grad flags the surgery can leave on the parameters: all
\* alike, or all alike but one
SurgeryFlags ==
    { [n \in ParamNames |-> IF n = odd THEN ~b ELSE b] :
          b \in BOOLEAN, odd \in ParamNames \cup {""} }

\* lines 356-370: the arguments passed on to the surgery
QueryParams(freeze, freeze_expression, remove_dropout, new_n_ext, new_n_ext_m, new_ext_mask, new_soft_ext_mask) ==
    [freeze |-> freeze, freeze_expression |-> freeze_expression,
     remove_dropout |-> remove_dropout]
    @@ (IF new_n_ext # None THEN [n_ext |-> new_n_ext[1]] ELSE EmptyStore)
    @@ (IF new_n_ext_m # None
        THEN [n_ext_m |-> new_n_ext_m[1], ext_mask |-> new_ext_mask[1],
              soft_ext_mask |-> new_soft_ext_mask]
        ELSE EmptyStore)

UnfreezeEither(freeze, unfreeze_ext) == freeze \/ unfreeze_ext

\* line 374
Unfreeze(freeze, unfreeze_ext) == freeze /\ unfreeze_ext

\* lines 376 and 378
Matches(name) ==
    \/ IsSubstr("ext_L.weight", name) \/ IsSubstr("ext_L_m.weight", name)
    \/ IsSubstr("expand_mean_encoder", name) \/ IsSubstr("expand_var_encoder", name)

\* lines 374-379: the flags of the model that is returned
RequiresGrad(flags, freeze, unfreeze_ext) ==
    [name \in DOMAIN flags |->
        IF Unfreeze(freeze, unfreeze_ext) /\ Matches(name) THEN TRUE ELSE flags[name]]

\* lines 343-381.  A class method: it builds a new model and does not touch
\* the wrapper it is called on.  The surgery it delegates to is external: it
\* may raise, and it decides the flags of the new model's parameters.
LoadQueryData(freezes, unfreezes, exts, extMasks, flagSets) ==
    /\ \E freeze \in freezes, unfreeze_ext \in unfreezes,
          new_n_ext \in exts, new_n_ext_m \in exts, new_ext_mask \in extMasks :
          LET call == [op |-> "load_query_data", freeze |-> freeze,
                       unfreeze_ext |-> unfreeze_ext, new_n_ext |-> new_n_ext,
                       new_n_ext_m |-> new_n_ext_m, new_ext_mask |-> new_ext_mask]
          IN  IF new_n_ext_m # None /\ new_ext_mask = None
              THEN ret' = call @@ [outcome |-> "ValueError", line |-> 368]
              ELSE \E params \in {QueryParams(freeze, TRUE, TRUE, new_n_ext,
                                              new_n_ext_m, new_ext_mask, FALSE)} :
                   \/ ret' = call @@ [outcome |-> "error", line |-> 372,
                                      params |-> params]
                   \/ \E flags \in flagSets :
                        ret' = call @@
                            [outcome |-> "ok", line |-> 381, params |-> params,
                             surgery |-> flags,
                             value |-> RequiresGrad(flags, freeze, unfreeze_ext)]
    /\ UNCHANGED <<ctor, wrapper, n_trainers, weight, uns, obs, enc>>

---------------------------------------------------------------------------
(* Specifications *)

Mask2 == <<Row(1, 1, 0), Row(0, 1, 1)>>
MaxDims == 2 + 2 * MaxExt

A == <<"A">>
B == <<"B">>
AB == <<"A", "B">>
Z == <<"Z">>

\* an encoder that maps every cell to the same posterior
FlatEnc == [n \in 1..MaxDims |->
              {[c \in Cells |-> [mean |-> [t \in 1..n |-> 1],
                                 var |-> [t \in 1..n |-> 1]]]}]

\* encoders over two latent terms, each cell's posterior one of three
Posteriors == {[mean |-> <<0, 0>>, var |-> <<1, 1>>],
               [mean |-> <<1, 0>>, var |-> <<1, 1>>],
               [mean |-> <<-1, 1>>, var |-> <<2, 1>>]}
VariedEnc == [n \in 1..MaxDims |->
                 {e \in [Cells -> Posteriors] :
                      e[2].mean # <<-1, 1>> /\ e[3].mean # <<1, 0>>}]

ByColumn == [kind |-> "str"]
Dict(items) == [kind |-> "dict", items |-> items]
Item(name, cells) == [name |-> name, cells |-> cells]
Str(v) == [kind |-> "str", v |-> v]
List(v) == [kind |-> "list", v |-> v]

\* the wrapper's life: construction, then any sequence of calls
Init == InitWith({Mask2}, {FALSE}, 0..MaxExt, <<{ZeroCol}, {ZeroCol}>>, {TRUE},
                 {<<A, A, B>>}, FlatEnc)

Next ==
    \/ Train(<<TrainCols, {ZeroCol}>>)
    \/ TermsGenes(FewTermLists, {"terms"})
    \/ LatentDirections({"counts", "mean"}, {"None"}, {"directions"})
    \/ LatentEnrich({ByColumn, Dict(<<Item(A, <<1>>), Item(B, <<4>>)>>), [kind |-> "list"]},
                    {Str(Rest)}, {"None"}, BOOLEAN, {None}, {TRUE}, {0})
    \/ LoadQueryData({TRUE}, {TRUE}, {None, Some(1)}, {None},
                     {[n \in ParamNames |-> FALSE]})

Spec == Init /\ [][Next]_vars

\* construction over every mask, and terms_genes over every list of names
InitMask == InitWith(AllMasks, BOOLEAN, 0..MaxExt, <<{ZeroCol}, {ZeroCol}>>,
                     BOOLEAN, {<<A, A, B>>}, FlatEnc)

NextMask == TermsGenes(TermLists, {"terms", "directions"})

SpecMask == InitMask /\ [][NextMask]_vars

\* latent_directions over the weight matrices
InitDirections == InitWith({Mask2}, {FALSE}, {0}, <<AllCols, FewCols>>, {FALSE},
                           {<<A, A, B>>}, FlatEnc)

NextDirections == LatentDirections(Methods, {"None", "other"}, {"directions"})

SpecDirections == InitDirections /\ [][NextDirections]_vars

\* load_query_data over the flags the surgery leaves
InitQuery == InitWith({Mask2}, {FALSE}, {0}, <<{ZeroCol}, {ZeroCol}>>, {FALSE},
                      {<<A, A, B>>}, FlatEnc)

NextQuery == LoadQueryData(BOOLEAN, BOOLEAN, {None, Some(1)},
                           {None, Some(<<Row(1, 0, 1)>>)}, SurgeryFlags)

SpecQuery == InitQuery /\ [][NextQuery]_vars

\* latent_enrich over the category columns, the forms of groups and the
\* forms of comparison
ObsColumns ==
    { <<A, A, B>>, <<A, B, AB>>, <<A, A, A>>, <<AB, A, AB>>,
      <<<<"r">>, A, A>>, <<Rest, B, <<"r">>>>, <<A, Z, B>> }

GroupArgs ==
    { ByColumn,
      Dict(<<Item(A, <<1>>), Item(B, <<2, 3>>)>>),
      Dict(<<Item(A, <<1, 2>>), Item(AB, <<3>>)>>),
      Dict(<<Item(<<"r">>, <<1>>), Item(A, <<3>>)>>),
      Dict(<<Item(A, <<1, 2>>), Item(B, <<2>>)>>),
      Dict(<<Item(A, <<>>), Item(B, <<1>>)>>),
      [kind |-> "list"] }

ComparisonArgs ==
    { Str(Rest), Str(A), Str(AB), Str(<<"r">>), Str(Z),
      List(<<A>>), List(<<A, B>>), List(<<A, Z>>), List(<<>>) }

InitGroups == InitWith({Mask2}, {FALSE}, {0}, <<{ZeroCol}, {ZeroCol}>>, {FALSE},
                       ObsColumns, FlatEnc)

NextGroups == LatentEnrich(GroupArgs, ComparisonArgs, {"other"}, {FALSE},
                           {None}, {TRUE}, {0})

SpecGroups == InitGroups /\ [][NextGroups]_vars

\* latent_enrich over the encoder's posteriors, with and without directions
InitScores == InitWith({Mask2}, {FALSE}, {0}, <<{ZeroCol}, {Row(-2, 0, 1)}>>, {FALSE},
                       {<<A, A, B>>}, VariedEnc)

NextScores ==
    \/ LatentDirections({"sum"}, {"None"}, {"directions"})
    \/ LatentEnrich({ByColumn}, {List(<<B, Z>>)}, {"None"}, BOOLEAN,
                    {None, Some(<<1, 0>>)}, BOOLEAN, {0, 1})

SpecScores == InitScores /\ [][NextScores]_vars

---------------------------------------------------------------------------
(* Properties *)

\* n_terms: the rows of the mask argument, or the columns of adata.varm[mask_key]
NTermsArg == IF ctor.mask = None THEN Len(ctor.varm[1]) ELSE Len(ctor.mask[1])

Distinct(s) == \A i, j \in DOMAIN s : s[i] = s[j] => i = j
GeneIndex(name) == CHOOSE j \in DOMAIN var_names : var_names[j] = name

\* C5: terms_genes with an explicit list of names raises a value error when
\* the list's length differs from the number of mask rows; when the length
\* matches and the names are distinct, the result's keys are exactly the
\* names and the i-th name maps to the genes, in gene order, whose entry in
\* mask row i is 1
C5_TermsGenes ==
    (ret.op = "terms_genes" /\ ~ret.isStr) =>
        LET terms == ret.terms
            rows == ResolveMask(ctor.mask, ctor.varm)
        IN  /\ Len(terms) # NTermsArg => ret.outcome = "ValueError"
            /\ (Len(terms) = NTermsArg /\ Distinct(terms)) =>
                  /\ ret.outcome = "ok"
                  /\ DOMAIN ret.value = Range(terms)
                  /\ \A i \in DOMAIN terms :
                        LET genes == ret.value[terms[i]] IN
                        /\ Range(genes) =
                             {var_names[j] : j \in {k \in 1..n_vars : rows[i][k] = 1}}
                        /\ \A a, b \in DOMAIN genes :
                              a < b => GeneIndex(genes[a]) < GeneIndex(genes[b])

C5_Witness ==
    /\ ret.op = "terms_genes"
    /\ ~ret.isStr
    /\ ret.outcome = "ok"
    /\ ret.terms = <<"B", "A">>
    /\ ret.value["B"] = <<"g1", "g3">>
    /\ ret.value["A"] = <<"g2">>

\* C6: latent_directions in counts mode stores, for every term, the sign +1
\* when 2*upreg > num_nz, -1 when 2*upreg < num_nz and num_nz > 0, and 0 when
\* 2*upreg = num_nz (num_nz = 0 included); the confidence it stores is
\* |upreg/num_nz - 0.5| / 0.5 when num_nz > 0 and 0 when num_nz = 0
C6_CountsMode ==
    (ret.op = "latent_directions" /\ ret.outcome = "ok" /\ ret.method = "counts") =>
        LET store == uns[Resolve(ret.adata)]
            signs == store[ret.key_added]
        IN  \A t \in 1..NTermsArg :
              LET num_nz == Cardinality({g \in 1..n_vars : weight[g][t] # 0})
                  upreg == Cardinality({g \in 1..n_vars : weight[g][t] > 0})
              IN  /\ 2 * upreg > num_nz => signs[t] = <<1, 1>>
                  /\ (2 * upreg < num_nz /\ num_nz > 0) => signs[t] = <<-1, 1>>
                  /\ 2 * upreg = num_nz => signs[t] = <<0, 1>>
                  /\ ret.get_confidence =>
                        LET c == store[ret.key_added \o ConfidenceSuffix][t] IN
                        /\ c[2] > 0
                        /\ num_nz > 0 =>
                              c[1] * num_nz = Abs(2 * upreg - num_nz) * c[2]
                        /\ num_nz = 0 => c[1] = 0

C6_Witness ==
    /\ ret.op = "latent_directions"
    /\ ret.outcome = "ok"
    /\ ret.method = "counts"
    /\ ret.get_confidence
    /\ \A g \in 1..n_vars : weight[g][1] = 0
    /\ weight[1][2] = 1 /\ weight[2][2] = -2 /\ weight[3][2] = 0
    /\ uns[Resolve(ret.adata)][ret.key_added] = <<R(0), R(0)>>
    /\ uns[Resolve(ret.adata)][ret.key_added \o ConfidenceSuffix] = <<R(0), R(0)>>

\* C9: a successful latent_directions call with key K writes the sign array
\* under K and, exactly when a confidence was requested and the mode is
\* counts, the confidence array under K followed by "_confidence"; no other
\* key of any store is added, removed or changed
C9_DirectionsKeys ==
    [][(ret'.op = "latent_directions" /\ ret'.outcome = "ok") =>
          LET d == Resolve(ret'.adata)
              K == ret'.key_added
              KC == K \o "_confidence"
              written == IF ret'.get_confidence /\ ret'.method = "counts"
                         THEN {K, KC} ELSE {K}
          IN  /\ DOMAIN uns'[d] = DOMAIN uns[d] \cup written
              /\ \A t \in DOMAIN uns'[d][K] : uns'[d][K][t] \in {R(-1), R(0), R(1)}
              /\ \A k \in DOMAIN uns[d] \ written : uns'[d][k] = uns[d][k]
              /\ \A e \in Datasets \ {d} : uns'[e] = uns[e]]_vars

\* C8: a call that fails leaves the wrapper's state and every store as they
\* were before the call, and the trained flag becomes true only when a train
\* call completes
C8_AllOrNothing ==
    [][/\ ret'.outcome # "ok" => (wrapper' = wrapper /\ uns' = uns)
       /\ (is_trained_' /\ ~is_trained_) =>
             (ret'.op = "train" /\ ret'.outcome = "ok")]_vars

\* the call of ret reached the comparison check of line 254: groups is a
\* column name, or a mapping whose cells are cells of the dataset
GroupsGiven ==
    /\ ret.op = "latent_enrich"
    /\ ret.groups.kind \in {"str", "dict"}
    /\ ret.groups.kind = "dict" =>
          \A i \in DOMAIN ret.groups.items : Range(ret.groups.items[i].cells) \subseteq Cells

\* the categories of the groups argument of ret
CategoriesOf ==
    IF ret.groups.kind = "str" THEN Range(obs)
    ELSE {ret.groups.items[i].name : i \in DOMAIN ret.groups.items}

RaisedAtCheck == ret.outcome = "ValueError" /\ ret.line = 255 /\ ret.n_choice = 0

Excluded ==
    IF ret.comparison.kind = "str"
    THEN (IF ret.comparison.v = Rest THEN {} ELSE {ret.comparison.v})
    ELSE Range(ret.comparison.v)

\* C3: when latent_enrich returns, the result assigned under the output key
\* has exactly one entry (p_h0, p_h1, bf) for each category of groups that
\* comparison does not exclude: with "rest" every category whatever its name,
\* with named categories every category not among the named ones
C3_EntryPerCategory ==
    (ret.op = "latent_enrich" /\ ret.outcome = "ok") =>
        /\ DOMAIN ret.scores = CategoriesOf \ Excluded
        /\ \A cat \in DOMAIN ret.scores :
              DOMAIN ret.scores[cat] = {"p_h0", "p_h1", "bf"}

\* C4: when latent_enrich returns, the scores are under the output key in
\* the store of the dataset the caller supplied (the model's own when none
\* is supplied), with groups a column name and with groups a mapping
C4_ScoresInCallersStore ==
    (ret.op = "latent_enrich" /\ ret.outcome = "ok") =>
        LET store == uns[Resolve(ret.adata)] IN
        /\ ret.key_added \in DOMAIN store
        /\ store[ret.key_added] = ret.scores

\* the term of the latent space behind the j-th term of the result
TermOf(j) ==
    IF ret.select_terms = None THEN j ELSE ret.select_terms[1][j] + 1

AllZero(z, t) == \A i \in DOMAIN z : z[i][t] = R(0)

TermIsZero(e, j) ==
    /\ e.p_h0[j] = R(0)
    /\ e.p_h1[j] = R(0)
    /\ e.bf[j] = BfZero

\* C7, as stated: for every category and term, if the latent values (the
\* means, in exact mode) of the group sample or of the comparison sample are
\* all 0 then the term's p_h0, p_h1 and bf are 0; for every other term
\* p_h0 + p_h1 = 1
C7_ZeroSumOfLatent ==
    (ret.op = "latent_enrich" /\ ret.outcome = "ok") =>
        \A cat \in DOMAIN ret.scores :
            LET e == ret.scores[cat]
                s == ret.samples[cat]
            IN  \A j \in DOMAIN e.p_h0 :
                  IF AllZero(s.raw0, TermOf(j)) \/ AllZero(s.raw1, TermOf(j))
                  THEN TermIsZero(e, j)
                  ELSE RAdd(e.p_h0[j], e.p_h1[j]) = R(1)

\* C7, amended: the values that decide are the latent values (the means, in
\* exact mode) after their multiplication by the directions, when directions
\* are used: if those of the group sample or of the comparison sample are all
\* 0 for a term, the term's p_h0, p_h1 and bf are 0; for every other term
\* p_h0 + p_h1 = 1.  A term whose direction is 0 is therefore always 0.
C7_ZeroSumOfDirected ==
    (ret.op = "latent_enrich" /\ ret.outcome = "ok") =>
        \A cat \in DOMAIN ret.scores :
            LET e == ret.scores[cat]
                s == ret.samples[cat]
                dir(t) == IF ret.use_directions
                          THEN uns[Resolve(ret.adata)]["directions"][t] ELSE R(1)
                zero(z, t) == \A i \in DOMAIN z : RMul(z[i][t], dir(t)) = R(0)
            IN  \A j \in DOMAIN e.p_h0 :
                  IF zero(s.raw0, TermOf(j)) \/ zero(s.raw1, TermOf(j))
                  THEN TermIsZero(e, j)
                  ELSE RAdd(e.p_h0[j], e.p_h1[j]) = R(1)

C7_Witness ==
    /\ ret.op = "latent_enrich"
    /\ ret.outcome = "ok"
    /\ ret.use_directions
    /\ ~ret.exact
    /\ ret.select_terms = Some(<<1, 0>>)
    /\ ~AllZero(ret.samples[A].raw0, 1)
    /\ ~AllZero(ret.samples[A].raw1, 1)
    /\ TermIsZero(ret.scores[A], 2)
    /\ ret.scores[A].p_h0[1] = Half
    /\ ret.scores[A].p_h1[1] = Half

\* the parameters the claim names: the base extension decoder weight, the
\* masked-extension decoder weight, the expand mean and variance encoders
ExtensionParams ==
    { "decoder.L0.ext_L.weight", "decoder.L0.ext_L_m.weight",
      "encoder.expand_mean_encoder.weight", "encoder.expand_mean_encoder.bias",
      "encoder.expand_var_encoder.weight", "encoder.expand_var_encoder.bias" }

\* C10: when load_query_data returns with freeze and unfreeze_ext both set,
\* the extension parameters of the new model are trainable and every other
\* parameter keeps the flag the surgery gave it; when freeze or unfreeze_ext
\* is unset, no parameter's flag differs from the surgery's
C10_UnfreezeExtension ==
    (ret.op = "load_query_data" /\ ret.outcome = "ok") =>
        /\ DOMAIN ret.value = DOMAIN ret.surgery
        /\ \A name \in DOMAIN ret.value :
              IF ret.freeze /\ ret.unfreeze_ext /\ name \in ExtensionParams
              THEN ret.value[name]
              ELSE ret.value[name] = ret.surgery[name]

C10_Witness ==
    /\ ret.op = "load_query_data"
    /\ ret.outcome = "ok"
    /\ ret.freeze /\ ret.unfreeze_ext
    /\ \A name \in DOMAIN ret.surgery : ~ret.surgery[name]
    /\ {name \in DOMAIN ret.value : ret.value[name]} = ExtensionParams

====
